---- MODULE Spec2Model ----
(***************************************************************************)
(* Railgun_V1.9.ipynb: the explicit-Euler integration of a bar driven      *)
(* along two rails (cell 5), the search for the current that reaches a     *)
(* target exit velocity (cells 6-7), and the same search with gravity and  *)
(* the induced current added (cells 8-9).  The notebook runs its cells in  *)
(* order on one set of global names; pc is the position in that run.       *)
(*                                                                         *)
(* Numbers.  The notebook computes in floating point; the model computes   *)
(* the same expressions, in the same order, over exact rationals           *)
(* <<numerator, denominator>> in lowest terms (denominator > 0).           *)
(* np.log is tabulated to one decimal place on the arguments that occur.   *)
(*                                                                         *)
(* Units.  The notebook's equations keep their form under a change of      *)
(* units.  With ampere and ohm kept, velocity measured in units of         *)
(* 5*10^4 m/s and time in units of 5*10^4 s, the acceleration of gravity   *)
(* still reads 9.8 and the magnetic constant 2e-7 reads 1/100.  The        *)
(* inputs below are of order 1..100 in those units, so that runs take one  *)
(* to three steps and every intermediate value fits TLC's integers.        *)
(***************************************************************************)
EXTENDS Integers, Sequences, FiniteSets, TLC

VARIABLES
    inp,      \* the values the notebook's cells assign (cells 2, 3, 6, 8)
    D, w, L, m, I,          \* cell 2
    barpos, dt, t, v,       \* cell 3
    Fnet,                   \* assigned in the loop bodies
    I_start, v_goal,        \* cells 6 and 8
    pc,       \* position in the notebook
    n,        \* iterations of the integration loop in the current run
    trial,    \* runs started by the current search
    Itrial,   \* the current the run in progress started with
    runs,     \* the finished runs: cell, starting current, steps, exit velocity
    printed   \* what the print calls have written

vars == <<inp, D, w, L, m, I, barpos, dt, t, v, Fnet, I_start, v_goal,
          pc, n, trial, Itrial, runs, printed>>

(***************************************************************************)
(* Bounds of the exploration.                                              *)
(***************************************************************************)
MaxSteps == 3
MaxTrials == 2

(***************************************************************************)
(* Exact rational arithmetic.                                              *)
(***************************************************************************)
\* The(S) is the element of a singleton S.  The operators below bind their
\* arguments through singletons, so that an argument is evaluated once and
\* not again at each of its uses.
The(S) == CHOOSE x \in S : TRUE

Abs(x) == IF x < 0 THEN -x ELSE x

RECURSIVE GCD(_, _)
GCD(a, b) ==
    The({IF y = 0 THEN x ELSE GCD(y, x % y) : x \in {a}, y \in {b}})

Norm(num, den) ==
    The({<<num \div g, den \div g>> : g \in {GCD(Abs(num), den)}})

R(k) == <<k, 1>>

RNeg(a) == The({<<-x[1], x[2]>> : x \in {a}})

RAdd(a, b) ==
    The({LET g == GCD(x[2], y[2])
         IN  Norm(x[1] * (y[2] \div g) + y[1] * (x[2] \div g),
                  (x[2] \div g) * y[2]) : x \in {a}, y \in {b}})

RSub(a, b) == RAdd(a, RNeg(b))

RMul(a, b) ==
    The({LET g1 == GCD(Abs(x[1]), y[2])
             g2 == GCD(Abs(y[1]), x[2])
         IN  <<(x[1] \div g1) * (y[1] \div g2),
               (x[2] \div g2) * (y[2] \div g1)>> : x \in {a}, y \in {b}})

RDiv(a, b) ==
    RMul(a, The({IF y[1] > 0 THEN <<y[2], y[1]>> ELSE <<-y[2], -y[1]>> :
                 y \in {b}}))

RLt(a, b) ==
    The({LET g == GCD(x[2], y[2])
         IN  x[1] * (y[2] \div g) < y[1] * (x[2] \div g) : x \in {a}, y \in {b}})

RLe(a, b) == ~RLt(b, a)

Zero == R(0)

(***************************************************************************)
(* The notebook's constants and formulas.                                  *)
(***************************************************************************)
Muover2pi == <<1, 100>>     \* Muover2pi = 2e-7, in the units above

Gravity == <<49, 5>>        \* the 9.8 of  -9.8*m

Growth == <<101, 100>>      \* the 1.01 of  I*1.01  and  I/1.01

\* np.log, to one decimal place
Log(x) ==
    CASE x = <<1, 1>>   -> R(0)
      [] x = <<20, 1>>  -> R(3)
      [] x = <<148, 1>> -> R(5)
      [] x = <<1, 5>>   -> <<-8, 5>>
      [] x = <<1, 20>>  -> R(-3)

\* variant: the two logarithms exchanged
LogTerm_Exchanged(d, ww) ==
    RSub(Log(RDiv(ww, R(2))), Log(RAdd(d, RDiv(ww, R(2)))))

\* (np.log(D+w/2)-np.log(w/2))
LogTerm(d, ww) ==
    RSub(Log(RAdd(d, RDiv(ww, R(2)))), Log(RDiv(ww, R(2))))

\* 2*Muover2pi*(I**2)*(np.log(D+w/2)-np.log(w/2))
MagneticForce(i, d, ww) ==
    RMul(RMul(RMul(R(2), Muover2pi), RMul(i, i)), LogTerm(d, ww))

\* variant: the induced current with the opposite sign
InducedCurrent_Opposite(i, d, ww, vel) ==
    RNeg(RMul(RMul(RMul(RMul(R(2), Muover2pi), i), LogTerm(d, ww)), vel))

\* 2*Muover2pi*I*(np.log(D+w/2)-np.log(w/2))*v
InducedCurrent(i, d, ww, vel) ==
    RMul(RMul(RMul(RMul(R(2), Muover2pi), i), LogTerm(d, ww)), vel)

\* variant: the induced current taken as a rate, I = I - dt*(...)
DepletedCurrent_Rate(i, d, ww, vel, step) ==
    RSub(i, RMul(step, InducedCurrent(i, d, ww, vel)))

\* I = I - 2*Muover2pi*I*(np.log(D+w/2)-np.log(w/2))*v
DepletedCurrent(i, d, ww, vel, step) ==
    RSub(i, InducedCurrent(i, d, ww, vel))

\* Fnet = 2*Muover2pi*(I**2)*(...) - 9.8*m
AugmentedForce(i, d, ww, mass) ==
    RSub(MagneticForce(i, d, ww), RMul(Gravity, mass))

\* v = v + Fnet/m*dt
NewVelocity(vel, f, mass, step) == RAdd(vel, RMul(RDiv(f, mass), step))

\* variant: barpos = barpos + v
NewPosition_NoStep(pos, vel, step) == RAdd(pos, vel)

\* barpos = barpos + v*dt
NewPosition(pos, vel, step) == RAdd(pos, RMul(vel, step))

\* variant: the force computed from the current of cell 2, not the trial's
BareBody_StaleCurrent(s) ==
    LET f  == MagneticForce(inp.I, s.D, s.w)
        nv == NewVelocity(s.v, f, s.m, s.dt)
        np == NewPosition(s.barpos, nv, s.dt)
    IN  [s EXCEPT !.Fnet = f, !.v = nv, !.barpos = np]

\* One pass of the bare loop body: Fnet, then v, then barpos (from the new v).
BareBody(s) ==
    LET f  == MagneticForce(s.I, s.D, s.w)
        nv == NewVelocity(s.v, f, s.m, s.dt)
        np == NewPosition(s.barpos, nv, s.dt)
    IN  [s EXCEPT !.Fnet = f, !.v = nv, !.barpos = np]

\* One pass of the augmented loop body: I (from the old v), Fnet (from the
\* new I), v, barpos, t.
AugBody(s) ==
    LET ni == DepletedCurrent(s.I, s.D, s.w, s.v, s.dt)
        f  == AugmentedForce(ni, s.D, s.w, s.m)
        nv == NewVelocity(s.v, f, s.m, s.dt)
        np == NewPosition(s.barpos, nv, s.dt)
    IN  [s EXCEPT !.I = ni, !.Fnet = f, !.v = nv, !.barpos = np,
                  !.t = RAdd(s.t, s.dt)]

\* while v <= v_goal
SearchContinues(vel, goal) == RLe(vel, goal)

\* while barpos < L
OnRail(pos, len) == RLt(pos, len)

\* variant: the print reports I itself
Reported_Raw(i) == i

\* the current the final print reports:  I/1.01
Reported(i) == RDiv(i, Growth)

(***************************************************************************)
(* Inputs: geometry, mass, time step, the current of cell 2, and the       *)
(* starting current and target velocity of cells 6 and 8.                  *)
(***************************************************************************)
Case(i, d, ww, len, mass, step, istart, goal) ==
    [I |-> i, D |-> d, w |-> ww, L |-> len, m |-> mass, dt |-> step,
     I_start |-> istart, v_goal |-> goal]

\* The second geometry is the notebook's: D = .15, w = 0.1.
CasesWith(i) ==
    { Case(i, R(147), R(2), R(10), R(1), R(1), R(20), R(6)),
      Case(i, R(147), R(2), R(10), R(1), R(1), R(20), R(40)),
      Case(i, R(147), R(2), R(10), R(1), R(1), R(20), R(31)),
      Case(i, R(147), R(2), R(1), R(2), <<1, 2>>, R(16), R(1)),
      Case(i, <<3, 20>>, <<1, 10>>, R(10), R(1), <<1, 2>>, R(40), R(18)),
      Case(i, <<3, 20>>, <<1, 10>>, <<5, 2>>, R(1), <<1, 4>>, R(40), <<56, 5>>),
      Case(i, R(147), R(2), R(1), R(5), R(2), R(20), R(6)),
      Case(i, R(147), R(2), <<51, 5>>, R(1), R(1), R(10), R(20)),
      Case(i, <<3, 20>>, <<1, 10>>, R(10), R(1), R(1), R(50), R(61)),
      Case(i, R(147), R(2), R(10), R(1), R(1), R(0), R(6)),
      Case(i, R(19), R(2), R(10), R(1), R(1), R(10), R(13)) }

\* The current cell 2 sets, used by the single run of cell 5.
Cell2Currents == { R(0), R(20), R(30) }

Inputs == UNION { CasesWith(i) : i \in Cell2Currents }

(***************************************************************************)
(* The program state as the record the loop bodies work on.                *)
(***************************************************************************)
Globals ==
    [D |-> D, w |-> w, L |-> L, m |-> m, I |-> I, barpos |-> barpos,
     dt |-> dt, t |-> t, v |-> v, Fnet |-> Fnet]

Store(s) ==
    /\ I' = s.I
    /\ barpos' = s.barpos
    /\ t' = s.t
    /\ v' = s.v
    /\ Fnet' = s.Fnet
    /\ UNCHANGED <<D, w, L, m, dt>>

Run(cell, steps, vel) == [cell |-> cell, I0 |-> Itrial, n |-> steps, v |-> vel]

\* Cells 2, 3 and 4 have run.
Init ==
    /\ inp \in Inputs
    /\ D = inp.D /\ w = inp.w /\ L = inp.L /\ m = inp.m /\ I = inp.I
    /\ barpos = Zero /\ dt = inp.dt /\ t = Zero /\ v = Zero
    /\ Fnet = Zero /\ I_start = Zero /\ v_goal = Zero
    /\ pc = "cell5" /\ n = 0 /\ trial = 0 /\ Itrial = inp.I
    /\ runs = <<>> /\ printed = <<>>

\* Cell 5: one pass of  while barpos < L
Cell5Step ==
    /\ pc = "cell5"
    /\ OnRail(barpos, L)
    /\ n < MaxSteps
    /\ Store(BareBody(Globals))
    /\ n' = n + 1
    /\ UNCHANGED <<inp, I_start, v_goal, pc, trial, Itrial, runs, printed>>

\* Cell 5: the loop ends, print(v)
Cell5Print ==
    /\ pc = "cell5"
    /\ ~OnRail(barpos, L)
    /\ printed' = Append(printed, [cell |-> 5, v |-> v])
    /\ runs' = Append(runs, Run(5, n, v))
    /\ pc' = "cell6"
    /\ UNCHANGED <<inp, D, w, L, m, I, barpos, dt, t, v, Fnet, I_start, v_goal,
                   n, trial, Itrial>>

\* Cell 6: I_start, I = I_start, v = 0, v_goal
Cell6 ==
    /\ pc = "cell6"
    /\ I_start' = inp.I_start
    /\ I' = inp.I_start
    /\ v' = Zero
    /\ v_goal' = inp.v_goal
    /\ pc' = "cell7"
    /\ trial' = 0
    /\ UNCHANGED <<inp, D, w, L, m, barpos, dt, t, Fnet, n, Itrial, runs, printed>>

\* Cell 7: while v <= v_goal holds; barpos = 0, v = 0
Cell7Outer ==
    /\ pc = "cell7"
    /\ SearchContinues(v, v_goal)
    /\ trial < MaxTrials
    /\ barpos' = Zero
    /\ v' = Zero
    /\ pc' = "cell7in"
    /\ n' = 0
    /\ trial' = trial + 1
    /\ Itrial' = I
    /\ UNCHANGED <<inp, D, w, L, m, I, dt, t, Fnet, I_start, v_goal, runs, printed>>

\* Cell 7: one pass of the inner  while barpos < L
Cell7Step ==
    /\ pc = "cell7in"
    /\ OnRail(barpos, L)
    /\ n < MaxSteps
    /\ Store(BareBody(Globals))
    /\ n' = n + 1
    /\ UNCHANGED <<inp, I_start, v_goal, pc, trial, Itrial, runs, printed>>

\* Cell 7: the inner loop ends; I = I*1.01
Cell7Grow ==
    /\ pc = "cell7in"
    /\ ~OnRail(barpos, L)
    /\ I' = RMul(I, Growth)
    /\ runs' = Append(runs, Run(7, n, v))
    /\ pc' = "cell7"
    /\ UNCHANGED <<inp, D, w, L, m, barpos, dt, t, v, Fnet, I_start, v_goal,
                   n, trial, Itrial, printed>>

\* Cell 7: the outer loop ends; print(v, I/1.01)
Cell7Print ==
    /\ pc = "cell7"
    /\ ~SearchContinues(v, v_goal)
    /\ printed' = Append(printed, [cell |-> 7, v |-> v, I |-> Reported(I)])
    /\ pc' = "cell8"
    /\ UNCHANGED <<inp, D, w, L, m, I, barpos, dt, t, v, Fnet, I_start, v_goal,
                   n, trial, Itrial, runs>>

\* Cell 8: I_start, I = I_start, v = 0, v_goal
Cell8 ==
    /\ pc = "cell8"
    /\ I_start' = inp.I_start
    /\ I' = inp.I_start
    /\ v' = Zero
    /\ v_goal' = inp.v_goal
    /\ pc' = "cell9"
    /\ trial' = 0
    /\ UNCHANGED <<inp, D, w, L, m, barpos, dt, t, Fnet, n, Itrial, runs, printed>>

\* Cell 9: while v <= v_goal holds; barpos = 0, v = 0
Cell9Outer ==
    /\ pc = "cell9"
    /\ SearchContinues(v, v_goal)
    /\ trial < MaxTrials
    /\ barpos' = Zero
    /\ v' = Zero
    /\ pc' = "cell9in"
    /\ n' = 0
    /\ trial' = trial + 1
    /\ Itrial' = I
    /\ UNCHANGED <<inp, D, w, L, m, I, dt, t, Fnet, I_start, v_goal, runs, printed>>

\* Cell 9: one pass of the inner  while barpos < L
Cell9Step ==
    /\ pc = "cell9in"
    /\ OnRail(barpos, L)
    /\ n < MaxSteps
    /\ Store(AugBody(Globals))
    /\ n' = n + 1
    /\ UNCHANGED <<inp, I_start, v_goal, pc, trial, Itrial, runs, printed>>

\* variant: the depleted current itself is grown, as in cell 7:  I = I*1.01
Cell9Grow_Depleted ==
    /\ pc = "cell9in"
    /\ ~OnRail(barpos, L)
    /\ I_start' = I_start
    /\ I' = RMul(I, Growth)
    /\ runs' = Append(runs, Run(9, n, v))
    /\ pc' = "cell9"
    /\ UNCHANGED <<inp, D, w, L, m, barpos, dt, t, v, Fnet, v_goal,
                   n, trial, Itrial, printed>>

\* Cell 9: the inner loop ends; I_start = I_start*1.01, I = I_start
Cell9Grow ==
    /\ pc = "cell9in"
    /\ ~OnRail(barpos, L)
    /\ I_start' = RMul(I_start, Growth)
    /\ I' = I_start'
    /\ runs' = Append(runs, Run(9, n, v))
    /\ pc' = "cell9"
    /\ UNCHANGED <<inp, D, w, L, m, barpos, dt, t, v, Fnet, v_goal,
                   n, trial, Itrial, printed>>

\* Cell 9: the outer loop ends; print(v, I/1.01)
Cell9Print ==
    /\ pc = "cell9"
    /\ ~SearchContinues(v, v_goal)
    /\ printed' = Append(printed, [cell |-> 9, v |-> v, I |-> Reported(I)])
    /\ pc' = "done"
    /\ UNCHANGED <<inp, D, w, L, m, I, barpos, dt, t, v, Fnet, I_start, v_goal,
                   n, trial, Itrial, runs>>

Next ==
    \/ Cell5Step
    \/ Cell5Print
    \/ Cell6
    \/ Cell7Outer
    \/ Cell7Step
    \/ Cell7Grow
    \/ Cell7Print
    \/ Cell8
    \/ Cell9Outer
    \/ Cell9Step
    \/ Cell9Grow
    \/ Cell9Print

Spec == Init /\ [][Next]_vars

\* The interpreter keeps executing: a cell that can take a step takes it.
FairSpec == Spec /\ WF_vars(Next)

(***************************************************************************)
(* Vocabulary of the properties.                                           *)
(***************************************************************************)
BareLoop == pc \in {"cell5", "cell7in"}

AugLoop == pc = "cell9in"

\* a step of the integration loop of cell 5 or 7, of cell 9
BareStepTaken == BareLoop /\ n' = n + 1

AugStepTaken == AugLoop /\ pc' = "cell9in" /\ n' = n + 1

\* the finished runs of one cell, in order
RunsOf(cell) == SelectSeq(runs, LAMBDA r : r.cell = cell)

LastRunOf(cell) == RunsOf(cell)[Len(RunsOf(cell))]

\* the search of that cell has printed its result
HasPrinted(cell) == \E k \in DOMAIN printed : printed[k].cell = cell

PrintOf(cell) == printed[CHOOSE k \in DOMAIN printed : printed[k].cell = cell]

IsBareRun(r) == r.cell \in {5, 7}

RECURSIVE GrowthPower(_)
GrowthPower(k) == IF k = 0 THEN R(1) ELSE RMul(GrowthPower(k - 1), Growth)

Searches == {7, 9}

(***************************************************************************)
(* C1.  Each search stops at the first trial whose exit velocity is        *)
(* >= v_goal: every run of a search that was followed by another run had   *)
(* an exit velocity below v_goal, and the run the search printed after     *)
(* has an exit velocity >= v_goal.                                         *)
(***************************************************************************)
C1_StopsAtFirstTrialReachingGoal ==
    \A c \in Searches :
        /\ \A k \in 1 .. Len(RunsOf(c)) - 1 : RLt(RunsOf(c)[k].v, inp.v_goal)
        /\ HasPrinted(c) =>
              /\ Len(RunsOf(c)) >= 1
              /\ RLe(inp.v_goal, LastRunOf(c).v)

(***************************************************************************)
(* C2.  As claimed: the current a search reports is one growth step below  *)
(* the trial current of the run that reached the target velocity.          *)
(***************************************************************************)
C2_ReportedOneStepBelowSuccessfulTrial ==
    \A c \in Searches :
        HasPrinted(c) => PrintOf(c).I = RDiv(LastRunOf(c).I0, Growth)

(***************************************************************************)
(* C2, amended.  The current a search reports is the trial current of the  *)
(* run that exceeded the target velocity (the last run of the search), and *)
(* the velocity it reports is that run's exit velocity.                    *)
(***************************************************************************)
C2_ReportedIsSuccessfulTrial ==
    \A c \in Searches :
        HasPrinted(c) =>
            /\ PrintOf(c).I = LastRunOf(c).I0
            /\ PrintOf(c).v = LastRunOf(c).v
            /\ RLt(inp.v_goal, LastRunOf(c).v)
            /\ LastRunOf(c).I0 = RMul(inp.I_start, GrowthPower(Len(RunsOf(c)) - 1))

\* a search that printed after a failed trial and a successful one
C2_Witness ==
    /\ HasPrinted(9)
    /\ Len(RunsOf(9)) = 2
    /\ RLe(RunsOf(9)[1].v, inp.v_goal)
    /\ RLt(RunsOf(9)[1].I0, PrintOf(9).I)

(***************************************************************************)
(* C3.  As claimed: with the same parameters the augmented search reports  *)
(* a strictly larger current than the bare search.                         *)
(***************************************************************************)
C3_AugmentedStrictlyLarger ==
    pc = "done" => RLt(PrintOf(7).I, PrintOf(9).I)

(***************************************************************************)
(* C3, amended.  When the first trial I_start succeeds in both variants,   *)
(* both searches report the same current, I_start: the augmented report    *)
(* is then equal to the bare one, not strictly larger.                     *)
(***************************************************************************)
C3_EqualWhenFirstTrialSucceedsInBoth ==
    (pc = "done" /\ Len(RunsOf(7)) = 1 /\ Len(RunsOf(9)) = 1) =>
        /\ PrintOf(7).I = inp.I_start
        /\ PrintOf(9).I = inp.I_start

\* both searches ended at their first trial, the augmented run with a
\* lower exit velocity than the bare one
C3_Witness ==
    /\ pc = "done"
    /\ Len(RunsOf(7)) = 1
    /\ Len(RunsOf(9)) = 1
    /\ RLt(LastRunOf(9).v, LastRunOf(7).v)

(***************************************************************************)
(* C4.  As claimed: for one geometry and one mode, the exit velocity is    *)
(* strictly increasing in the trial current.                               *)
(***************************************************************************)
C4_ExitVelocityIncreasing ==
    \A i, j \in DOMAIN runs :
        (IsBareRun(runs[i]) = IsBareRun(runs[j]) /\ RLt(runs[i].I0, runs[j].I0))
            => RLt(runs[i].v, runs[j].v)

(***************************************************************************)
(* C4, amended.  In bare mode, of two trial currents I1 < I2 the larger    *)
(* leaves the rail in no more steps than the smaller, and when both take   *)
(* the same number of steps exit_velocity(I1) < exit_velocity(I2).         *)
(***************************************************************************)
C4_BareIncreasingAtEqualSteps ==
    \A i, j \in DOMAIN runs :
        (IsBareRun(runs[i]) /\ IsBareRun(runs[j]) /\ RLt(runs[i].I0, runs[j].I0))
            => /\ runs[j].n <= runs[i].n
               /\ runs[i].n = runs[j].n => RLt(runs[i].v, runs[j].v)

\* two bare runs of several steps each, the same number, at different currents
C4_Witness ==
    \E i, j \in DOMAIN runs :
        /\ IsBareRun(runs[i]) /\ IsBareRun(runs[j])
        /\ RLt(runs[i].I0, runs[j].I0)
        /\ runs[i].n = runs[j].n
        /\ runs[i].n >= 2

(***************************************************************************)
(* C5.  A run started with current 0, or an augmented run whose magnetic   *)
(* force does not exceed 9.8*m, does not stay in the integration loop      *)
(* forever: it comes to an end.                                            *)
(***************************************************************************)
RunInProgress == (BareLoop \/ AugLoop) /\ OnRail(barpos, L)

InsufficientCurrent ==
    \/ I = Zero
    \/ AugLoop /\ RLe(MagneticForce(I, D, w), RMul(Gravity, m))

C5_InsufficientCurrentRunEnds ==
    [](((BareLoop \/ AugLoop) /\ n = 0 /\ InsufficientCurrent) => <>(~RunInProgress))

(***************************************************************************)
(* C6.  Every trial run of a search starts from a fresh state: at its      *)
(* first step position, velocity and elapsed time are 0 and the current    *)
(* is the trial value I_start * 1.01^(trial - 1).                          *)
(***************************************************************************)
C6_TrialStartsFresh ==
    (pc \in {"cell7in", "cell9in"} /\ n = 0) =>
        /\ barpos = Zero
        /\ v = Zero
        /\ t = Zero
        /\ I = RMul(inp.I_start, GrowthPower(trial - 1))

(***************************************************************************)
(* C7.  As claimed: an augmented step first sets                           *)
(* I_new = I + dt * (-2*k*I*(ln(D+w/2) - ln(w/2))*v) from the previous     *)
(* step's velocity, then computes the force from I_new.                    *)
(***************************************************************************)
C7_CurrentUpdateScaledByDt ==
    [][AugStepTaken =>
          /\ I' = RAdd(I, RMul(dt, RNeg(RMul(RMul(RMul(R(2), RMul(Muover2pi, I)),
                                                   LogTerm(D, w)), v))))
          /\ Fnet' = RSub(MagneticForce(I', D, w), RMul(Gravity, m))]_vars

(***************************************************************************)
(* C7, amended.  An augmented step first subtracts the induced current     *)
(* itself, with no factor dt: I_new = I - 2*k*I*(ln(D+w/2) - ln(w/2))*v,   *)
(* from the previous step's velocity, then computes the force from I_new.  *)
(***************************************************************************)
C7_CurrentUpdateThenForce ==
    [][AugStepTaken =>
          /\ I' = RSub(I, RMul(RMul(RMul(R(2), RMul(Muover2pi, I)),
                                    LogTerm(D, w)), v))
          /\ Fnet' = RSub(MagneticForce(I', D, w), RMul(Gravity, m))]_vars

\* an augmented run with dt /= 1 whose second step changed the current
C7_Witness ==
    /\ AugLoop
    /\ n >= 2
    /\ dt # R(1)
    /\ I # Itrial
    /\ Fnet = RSub(MagneticForce(I, D, w), RMul(Gravity, m))

(***************************************************************************)
(* C8.  As claimed: no augmented step increases the current, whatever the  *)
(* sign of the velocity, and no bare step changes it.                      *)
(***************************************************************************)
C8_CurrentNeverIncreases ==
    [][/\ AugStepTaken => RLe(I', I)
       /\ BareStepTaken => I' = I]_vars

(***************************************************************************)
(* C8, amended.  An augmented step taken with current >= 0 and velocity    *)
(* >= 0 does not increase the current; one taken with current > 0 and      *)
(* velocity < 0 increases it; no bare step changes the current.            *)
(***************************************************************************)
C8_CurrentDepletedWhileMovingForward ==
    [][/\ (AugStepTaken /\ RLe(Zero, I) /\ RLe(Zero, v)) => RLe(I', I)
       /\ (AugStepTaken /\ RLt(Zero, I) /\ RLt(v, Zero)) => RLt(I, I')
       /\ BareStepTaken => I' = I]_vars

\* an augmented run moving forward whose current has been depleted
C8_Witness ==
    /\ AugLoop
    /\ n >= 2
    /\ RLt(Zero, I)
    /\ RLt(I, Itrial)
    /\ RLt(Zero, v)

(***************************************************************************)
(* C9.  In bare mode with I > 0 the net force is positive at every step,   *)
(* the velocity is positive after the first step and stays positive, and   *)
(* the integration loop reaches barpos >= L.                               *)
(***************************************************************************)
BareRunWithCurrent == BareLoop /\ RLt(Zero, I)

ForceAndVelocityPositive == RLt(Zero, Fnet) /\ RLt(Zero, v)

BareRunEnded == BareLoop /\ ~OnRail(barpos, L)

C9_BareRunTerminates ==
    /\ []((BareRunWithCurrent /\ n >= 1) => ForceAndVelocityPositive)
    /\ (BareRunWithCurrent ~> BareRunEnded)

\* a bare trial of a search that left the rail after several steps
C9_Witness ==
    /\ pc = "cell7in"
    /\ RLt(Zero, I)
    /\ n >= 2
    /\ ~OnRail(barpos, L)

(***************************************************************************)
(* C10.  In a bare run from rest with a = F/m, after n steps v = n*a*dt    *)
(* and barpos = a*dt^2*n*(n+1)/2; the loop goes on while that is < L, so   *)
(* the run ends after the least n >= 1 with a*dt^2*n*(n+1)/2 >= L, and     *)
(* at the end barpos >= L and barpos - v*dt < L.                           *)
(***************************************************************************)
Triangle(a, k) ==
    RMul(RMul(a, RMul(dt, dt)), <<(k * (k + 1)) \div 2, 1>>)

C10_BareClosedForm ==
    BareLoop =>
        LET a == RDiv(RMul(RMul(R(2), RMul(Muover2pi, RMul(I, I))), LogTerm(D, w)), m)
        IN  /\ v = RMul(RMul(R(n), a), dt)
            /\ barpos = Triangle(a, n)
            /\ \A k \in 0 .. n - 1 : RLt(Triangle(a, k), L)
            /\ ~OnRail(barpos, L) =>
                  /\ n >= 1
                  /\ RLe(L, Triangle(a, n))
                  /\ RLt(RSub(barpos, RMul(v, dt)), L)

\* the run of cell 5 has left the rail after three steps
C10_Witness ==
    /\ pc = "cell5"
    /\ n = 3
    /\ ~OnRail(barpos, L)

====
